---- MODULE Spec2Model ----
(***************************************************************************)
(* Model of the Homebase vault backend (apps/desktop/src-tauri/src/vault.rs) *)
(*                                                                         *)
(* Strings are sequences of tokens.  A token is an indivisible piece of    *)
(* text ("notes", "/", ".", "-x", ...); the token alphabet is chosen so    *)
(* that no text has two tokenisations, hence Rust's str::starts_with is    *)
(* the prefix relation on token sequences.  A PathBuf is its raw string.   *)
(* The file system is a function from absolute component lists (POSIX      *)
(* resolution of a raw path) to nodes.                                     *)
(***************************************************************************)
EXTENDS Integers, Sequences, FiniteSets, TLC

VARIABLES
    fs,      \* the disk: absolute component list -> node
    clock,   \* Utc::now(), non-decreasing
    uuids,   \* number of Uuid::new_v4() values drawn so far
    last,    \* record of the last public operation (arguments, result, disk before)
    prev,    \* record of the operation before it
    limit,   \* how many calls the behaviour may make
    inp,     \* SpecPath: the path string handed to resolve_vault_path
    out,     \* SpecPath: what resolve_vault_path returned
    wpc,     \* SpecAtomic: the writer's position inside write_atomic
    wcall,   \* SpecAtomic: which write_atomic call the writer is in (1 = "A", 2 = "B")
    reads    \* SpecAtomic: what the reader obtained while the second write ran

vars == <<fs, clock, uuids, last, prev, limit, inp, out, wpc, wcall, reads>>

(***************************************************************************)
(* Strings                                                                 *)
(***************************************************************************)
SLASH == "/"
DOT == "."

StartsWith(s, pre) == Len(pre) <= Len(s) /\ SubSeq(s, 1, Len(pre)) = pre

EndsWith(s, suf) ==
    Len(suf) <= Len(s) /\ SubSeq(s, Len(s) - Len(suf) + 1, Len(s)) = suf

Drop(s, n) == SubSeq(s, n + 1, Len(s))

RECURSIVE Concat(_)
Concat(ss) == IF ss = <<>> THEN <<>> ELSE Head(ss) \o Concat(Tail(ss))

\* "a/b/c" for the component list <<a, b, c>>
RECURSIVE JoinSlash(_)
JoinSlash(cs) ==
    IF cs = <<>> THEN <<>>
    ELSE IF Len(cs) = 1 THEN cs[1]
    ELSE cs[1] \o <<SLASH>> \o JoinSlash(Tail(cs))

\* the pieces of s between separators, empty pieces included
RECURSIVE SplitSlash(_, _)
SplitSlash(s, cur) ==
    IF s = <<>> THEN <<cur>>
    ELSE IF Head(s) = SLASH THEN <<cur>> \o SplitSlash(Tail(s), <<>>)
    ELSE SplitSlash(Tail(s), Append(cur, Head(s)))

RECURSIVE SeqFilter(_, _)
SeqFilter(s, keep) ==
    IF s = <<>> THEN <<>>
    ELSE IF Head(s) \in keep THEN <<Head(s)>> \o SeqFilter(Tail(s), keep)
    ELSE SeqFilter(Tail(s), keep)

RECURSIVE StringsUpTo(_, _)
StringsUpTo(alphabet, n) ==
    IF n = 0 THEN {<<>>}
    ELSE LET shorter == StringsUpTo(alphabet, n - 1)
         IN shorter \cup {Append(s, c) : s \in shorter, c \in alphabet}

(***************************************************************************)
(* std::path on Unix                                                       *)
(***************************************************************************)
CurDir == <<DOT>>
ParentDir == <<DOT, DOT>>

\* Path::is_absolute
IsAbsolute(p) == p # <<>> /\ Head(p) = SLASH

RECURSIVE DropEmptyAndDot(_)
DropEmptyAndDot(cs) ==
    IF cs = <<>> THEN <<>>
    ELSE IF Head(cs) = <<>> \/ Head(cs) = CurDir THEN DropEmptyAndDot(Tail(cs))
    ELSE <<Head(cs)>> \o DropEmptyAndDot(Tail(cs))

\* Path::components without RootDir: a leading "." is kept (Component::CurDir),
\* every other "." and every empty piece is skipped, ".." is Component::ParentDir
Components(p) ==
    LET pieces == SplitSlash(p, <<>>)
    IN  IF (~IsAbsolute(p)) /\ Head(pieces) = CurDir
        THEN <<CurDir>> \o DropEmptyAndDot(Tail(pieces))
        ELSE DropEmptyAndDot(pieces)

\* the Normal and ParentDir components: what the kernel walks
Walk(p) == DropEmptyAndDot(SplitSlash(p, <<>>))

\* Path::join (PathBuf::push): an absolute argument replaces the receiver
PathJoin(base, p) ==
    IF IsAbsolute(p) THEN p
    ELSE IF base = <<>> \/ EndsWith(base, <<SLASH>>) THEN base \o p
    ELSE base \o <<SLASH>> \o p

\* Path::file_name: the last component when it is a Normal one
HasFileName(p) == Walk(p) # <<>> /\ Walk(p)[Len(Walk(p))] # ParentDir
FileName(p) == Walk(p)[Len(Walk(p))]

\* Path::parent, as the component list of the parent
ParentComps(cs) == SubSeq(cs, 1, Len(cs) - 1)

IsPrefixSeq(a, b) == Len(a) <= Len(b) /\ SubSeq(b, 1, Len(a)) = a

(***************************************************************************)
(* Path Resolver                                                           *)
(***************************************************************************)
HomeDir == <<SLASH, "home">>

homebase_vault_root == PathJoin(HomeDir, <<"Homebase">>)

RootComps == Walk(homebase_vault_root)

validate_relative_path(path) ==
    IF IsAbsolute(path) THEN [ok |-> FALSE, err |-> "Path must be relative", rel |-> <<>>]
    ELSE IF \E i \in 1..Len(Components(path)) : Components(path)[i] = ParentDir
    THEN [ok |-> FALSE, err |-> "Path must not contain '..'", rel |-> <<>>]
    ELSE [ok |-> TRUE, err |-> "", rel |-> path]

resolve_vault_path(relative_path) ==
    LET v == validate_relative_path(relative_path)
    IN  IF ~v.ok THEN [ok |-> FALSE, err |-> v.err, full |-> <<>>]
        ELSE [ok |-> TRUE, err |-> "", full |-> PathJoin(homebase_vault_root, v.rel)]

(***************************************************************************)
(* Sequencing: Bind(v, LAMBDA x : e) is e with x standing for the value of *)
(* v, computed once (the "let r = ...;" of the source)                     *)
(***************************************************************************)
Bind(v, F(_)) == CHOOSE y \in {F(x) : x \in {v}} : TRUE

(***************************************************************************)
(* The disk (POSIX semantics of the std::fs calls the program makes)       *)
(***************************************************************************)
NoData ==
    [tag |-> "", id |-> "", name |-> <<>>, status |-> "",
     created |-> 0, modified |-> 0, text |-> ""]

Text(s) == [NoData EXCEPT !.tag = "text", !.text = s]

\* mtime: the time of the write that produced the file's content
DirNode == [kind |-> "dir", data |-> NoData, mtime |-> 0]
FileNode(d, t) == [kind |-> "file", data |-> d, mtime |-> t]

\* the raw string of an absolute component list
AbsStr(cs) == <<SLASH>> \o JoinSlash(cs)

\* a path written with a trailing separator (or trailing ".") names a directory
MustBeDir(p) ==
    Bind(SplitSlash(p, <<>>), LAMBDA pieces :
        Len(pieces) > 1 /\ pieces[Len(pieces)] \in {<<>>, CurDir})

\* Path::exists
Exists(f, p) ==
    Bind(Walk(p), LAMBDA k :
        /\ k \in DOMAIN f
        /\ MustBeDir(p) => f[k].kind = "dir")

\* Path::is_dir
IsDir(f, p) == Bind(Walk(p), LAMBDA k : k \in DOMAIN f /\ f[k].kind = "dir")

\* Path::is_file
IsFile(f, p) == Exists(f, p) /\ f[Walk(p)].kind = "file"

Children(f, k) == {c \in DOMAIN f : Len(c) = Len(k) + 1 /\ IsPrefixSeq(k, c)}

Under(f, k) == {c \in DOMAIN f : IsPrefixSeq(k, c)}

Restrict(f, keys) == [q \in keys |-> f[q]]

\* fs::create_dir_all
create_dir_all(f, p) ==
    Bind(Walk(p), LAMBDA k :
    Bind({SubSeq(k, 1, i) : i \in 0..Len(k)}, LAMBDA pre :
        IF \E q \in pre : q \in DOMAIN f /\ f[q].kind = "file"
        THEN [ok |-> FALSE, fs |-> f]
        ELSE [ok |-> TRUE,
              fs |-> [q \in DOMAIN f \cup pre |-> IF q \in DOMAIN f THEN f[q] ELSE DirNode]]))

\* fs::write: create or truncate, then write
fs_write(f, p, d, t) ==
    Bind(Walk(p), LAMBDA k :
        IF /\ k # <<>>
           /\ ~MustBeDir(p)
           /\ ParentComps(k) \in DOMAIN f
           /\ f[ParentComps(k)].kind = "dir"
           /\ k \in DOMAIN f => f[k].kind = "file"
        THEN [ok |-> TRUE,
              fs |-> [q \in DOMAIN f \cup {k} |-> IF q = k THEN FileNode(d, t) ELSE f[q]]]
        ELSE [ok |-> FALSE, fs |-> f])

\* fs::remove_file
remove_file(f, p) ==
    IF IsFile(f, p)
    THEN [ok |-> TRUE, fs |-> Restrict(f, DOMAIN f \ {Walk(p)})]
    ELSE [ok |-> FALSE, fs |-> f]

\* fs::remove_dir
remove_dir(f, p) ==
    IF IsDir(f, p) /\ Walk(p) # <<>> /\ Children(f, Walk(p)) = {}
    THEN [ok |-> TRUE, fs |-> Restrict(f, DOMAIN f \ {Walk(p)})]
    ELSE [ok |-> FALSE, fs |-> f]

\* fs::read_to_string
read_to_string(f, p) ==
    IF IsFile(f, p)
    THEN [ok |-> TRUE, data |-> f[Walk(p)].data]
    ELSE [ok |-> FALSE, data |-> NoData]

\* whether rename(2) of s to d succeeds
RenameAllowed(f, src, dst, s, d) ==
    /\ s \in DOMAIN f
    /\ s # <<>> /\ d # <<>>
    /\ ParentComps(d) \in DOMAIN f
    /\ f[ParentComps(d)].kind = "dir"
    /\ IF f[s].kind = "file"
       THEN /\ ~MustBeDir(src) /\ ~MustBeDir(dst)
            /\ d \in DOMAIN f => f[d].kind = "file"
       ELSE /\ ~(IsPrefixSeq(s, d) /\ s # d)
            /\ (d \in DOMAIN f /\ d # s) => f[d].kind = "dir" /\ Children(f, d) = {}

\* fs::rename (rename(2)): a file replaces a file, a directory replaces an empty
\* directory, the whole subtree moves
rename(f, src, dst) ==
    Bind(Walk(src), LAMBDA s :
    Bind(Walk(dst), LAMBDA d :
        IF ~RenameAllowed(f, src, dst, s, d) THEN [ok |-> FALSE, fs |-> f]
        ELSE IF s = d THEN [ok |-> TRUE, fs |-> f]
        ELSE Bind(Under(f, s), LAMBDA old :
             Bind({d \o Drop(c, Len(s)) : c \in old}, LAMBDA moved :
                 [ok |-> TRUE,
                  fs |-> [q \in (DOMAIN f \ old) \cup moved |->
                            IF q \in moved THEN f[s \o Drop(q, Len(d))] ELSE f[q]]]))))

(***************************************************************************)
(* Uuid::new_v4: the n-th value drawn.  A value drawn is different from    *)
(* every value drawn before and from every name already on the disk.       *)
(***************************************************************************)
UuidText == <<"u1", "u2", "u3", "u4", "u5", "u6", "u7", "u8", "u9", "u10",
              "u11", "u12", "u13", "u14", "u15", "u16", "u17", "u18", "u19", "u20">>

\* its first eight and first six hex digits (simple form)
UuidHex8 == <<"h1", "h2", "h3", "h4", "h5", "h6", "h7", "h8", "h9", "h10",
              "h11", "h12", "h13", "h14", "h15", "h16", "h17", "h18", "h19", "h20">>

UuidHex6 == <<"s1", "s2", "s3", "s4", "s5", "s6", "s7", "s8", "s9", "s10",
              "s11", "s12", "s13", "s14", "s15", "s16", "s17", "s18", "s19", "s20">>

UuidsLeft(n) == Len(UuidText) - n

(***************************************************************************)
(* Atomic Writer                                                           *)
(***************************************************************************)
\* a writer that writes in place
TmpPathIsTarget(path, u) == path

\* the sibling temporary file: parent.join(".<file name>.tmp").with_extension("tmp-<uuid>")
TmpPath(path, u) ==
    PathJoin(AbsStr(ParentComps(Walk(path))),
             <<DOT>> \o FileName(path) \o <<DOT, "tmp-", UuidText[u]>>)

CreateParent(f, path) == create_dir_all(f, AbsStr(ParentComps(Walk(path))))

\* the File::create inside fs::write(&tmp_path, contents): the temporary file
\* exists and is empty
TruncateTmp(f, path, u, t) == fs_write(f, TmpPath(path, u), Text(""), t)

WriteTmp(f, path, contents, u, t) == fs_write(f, TmpPath(path, u), contents, t)

RemoveExisting(f, path) ==
    IF Exists(f, path) THEN remove_file(f, path) ELSE [ok |-> TRUE, fs |-> f]

RenameTmp(f, path, u) == rename(f, TmpPath(path, u), path)

WriteFailed(r, err) == [ok |-> FALSE, fs |-> r.fs, err |-> err]

\* write_atomic(path, contents) at time t, u the uuid drawn for the temporary name
write_atomic(f, path, contents, u, t) ==
    IF Walk(path) = <<>> THEN [ok |-> FALSE, fs |-> f, err |-> "Invalid path (missing parent)"]
    ELSE
    Bind(CreateParent(f, path), LAMBDA r1 :
        IF ~r1.ok THEN WriteFailed(r1, "Failed to create directory") ELSE
    Bind(WriteTmp(r1.fs, path, contents, u, t), LAMBDA r2 :
        IF ~r2.ok THEN WriteFailed(r2, "Failed to write temp file") ELSE
    Bind(RemoveExisting(r2.fs, path), LAMBDA r3 :
        IF ~r3.ok THEN WriteFailed(r3, "Failed to replace") ELSE
    Bind(RenameTmp(r3.fs, path, u), LAMBDA r4 :
        IF ~r4.ok THEN WriteFailed(r4, "Failed to rename")
        ELSE [ok |-> TRUE, fs |-> r4.fs, err |-> ""]))))

(***************************************************************************)
(* Vault Bootstrapper                                                      *)
(***************************************************************************)
S(cs) == JoinSlash(cs)

NOTES == <<"notes">>
INBOX == <<"inbox">>
ARCHIVE == <<"archive">>
FOLDERS == <<"folders">>
PROJECTS == <<"projects">>

dirs_to_create ==
    << S(<<NOTES, INBOX>>), S(<<NOTES, ARCHIVE>>), S(<<NOTES, FOLDERS>>),
       S(<<NOTES, PROJECTS>>), <<"assets">>, <<"config">>, <<DOT, "homebase">> >>

SettingsRel == S(<<<<"config">>, <<"settings", DOT, "json">>>>)

\* the default settings document; its createdAt is the time of the call
SettingsJson(now) ==
    [NoData EXCEPT !.tag = "settings", !.created = now, !.text = "version 1"]

RECURSIVE CreateDirs(_, _, _)
CreateDirs(f, root, ds) ==
    IF ds = <<>> THEN [ok |-> TRUE, fs |-> f]
    ELSE Bind(create_dir_all(f, PathJoin(root, Head(ds))), LAMBDA r :
             IF r.ok THEN CreateDirs(r.fs, root, Tail(ds)) ELSE [ok |-> FALSE, fs |-> r.fs])

\* the bootstrapper without its "only if absent" test
ensure_overwriting_settings(f, vault_root, now, n) ==
    Bind(CreateDirs(f, vault_root, dirs_to_create), LAMBDA r :
        IF ~r.ok THEN [ok |-> FALSE, fs |-> r.fs, used |-> 0, err |-> "Failed to create"]
        ELSE Bind(write_atomic(r.fs, PathJoin(vault_root, SettingsRel), SettingsJson(now),
                               n + 1, now), LAMBDA w :
                 [ok |-> w.ok, fs |-> w.fs, used |-> 1, err |-> w.err]))

\* ensure_vault_structure(vault_root) at time now; n uuids were drawn before.
\* used: the number of uuids the call drew.
ensure_vault_structure(f, vault_root, now, n) ==
    Bind(CreateDirs(f, vault_root, dirs_to_create), LAMBDA r :
        IF ~r.ok THEN [ok |-> FALSE, fs |-> r.fs, used |-> 0, err |-> "Failed to create"]
        ELSE IF ~Exists(r.fs, PathJoin(vault_root, SettingsRel))
        THEN Bind(write_atomic(r.fs, PathJoin(vault_root, SettingsRel), SettingsJson(now),
                               n + 1, now), LAMBDA w :
                 [ok |-> w.ok, fs |-> w.fs, used |-> 1, err |-> w.err])
        ELSE [ok |-> TRUE, fs |-> r.fs, used |-> 0, err |-> ""])

(***************************************************************************)
(* Helpers of the public operations                                        *)
(***************************************************************************)
BSLASH == "\\"
SPACE == " "
DASH == "-"

None == [some |-> FALSE, v |-> <<>>]
\* an absent Option<String> whose present values are modelled as one token
NoneToken == [some |-> FALSE, v |-> ""]
Some(x) == [some |-> TRUE, v |-> x]

path_to_forward_slashes(p) ==
    [i \in 1..Len(p) |-> IF p[i] = BSLASH THEN SLASH ELSE p[i]]

RECURSIVE TrimLeftPieces(_)
TrimLeftPieces(ps) ==
    IF ps # <<>> /\ Head(ps) \in {<<>>, CurDir} THEN TrimLeftPieces(Tail(ps)) ELSE ps

RECURSIVE TrimRightPieces(_)
TrimRightPieces(ps) ==
    IF ps # <<>> /\ ps[Len(ps)] \in {<<>>, CurDir}
    THEN TrimRightPieces(SubSeq(ps, 1, Len(ps) - 1))
    ELSE ps

\* Path::strip_prefix(vault_root) then path_to_forward_slashes: the rest of the
\* raw string, leading and trailing separators and "." pieces trimmed
relative_from_vault_root(full) ==
    IF IsPrefixSeq(RootComps, Walk(full)) /\ StartsWith(full, homebase_vault_root)
    THEN [ok |-> TRUE,
          rel |-> path_to_forward_slashes(JoinSlash(TrimRightPieces(TrimLeftPieces(
                      SplitSlash(Drop(full, Len(homebase_vault_root)), <<>>)))))]
    ELSE [ok |-> FALSE, rel |-> <<>>]

RECURSIVE TrimStartMatches(_, _)
TrimStartMatches(s, pat) ==
    IF pat # <<>> /\ StartsWith(s, pat) THEN TrimStartMatches(Drop(s, Len(pat)), pat) ELSE s

RECURSIVE TrimEndMatches(_, _)
TrimEndMatches(s, pat) ==
    IF pat # <<>> /\ EndsWith(s, pat)
    THEN TrimEndMatches(SubSeq(s, 1, Len(s) - Len(pat)), pat)
    ELSE s

\* str::trim
Trim(s) == TrimEndMatches(TrimStartMatches(s, <<SPACE>>), <<SPACE>>)

Take(s, n) == SubSeq(s, 1, IF Len(s) < n THEN Len(s) ELSE n)

\* the characters of the model's names and ids
LowerAlnum == {"m", "p", "q", "7"}
UpperOf == [c \in {"M", "P"} |-> IF c = "M" THEN "m" ELSE "p"]
to_ascii_lowercase(c) == IF c \in DOMAIN UpperOf THEN UpperOf[c] ELSE c

RECURSIVE SlugChars(_, _)
SlugChars(s, last_was_dash) ==
    IF s = <<>> THEN <<>>
    ELSE IF to_ascii_lowercase(Head(s)) \in LowerAlnum
    THEN <<to_ascii_lowercase(Head(s))>> \o SlugChars(Tail(s), FALSE)
    ELSE IF ~last_was_dash THEN <<DASH>> \o SlugChars(Tail(s), TRUE)
    ELSE SlugChars(Tail(s), last_was_dash)

slugify(input) ==
    Bind(TrimEndMatches(TrimStartMatches(SlugChars(Trim(input), FALSE), <<DASH>>), <<DASH>>),
         LAMBDA o : IF o = <<>> THEN <<"project">> ELSE o)

\* Local::now().format("%Y-%m-%d"): the calls of one behaviour fall on one day
LocalDate == <<"2026-01-01">>

MD == <<DOT, "md">>

kind_from_relative_path(relative_path) ==
    IF StartsWith(relative_path, S(<<NOTES, INBOX, <<>>>>)) THEN "inbox"
    ELSE IF StartsWith(relative_path, S(<<NOTES, ARCHIVE, <<>>>>)) THEN "archive"
    ELSE IF StartsWith(relative_path, S(<<NOTES, PROJECTS, <<>>>>)) THEN "project"
    ELSE IF StartsWith(relative_path, S(<<NOTES, FOLDERS, <<>>>>)) THEN "folder"
    ELSE "other"

\* Path::extension
Extension(name) ==
    Bind({i \in 2..Len(name) : name[i] = DOT}, LAMBDA dots :
        IF dots = {} THEN <<>>
        ELSE Drop(name, CHOOSE i \in dots : \A j \in dots : j <= i))

NoInfo ==
    [id |-> "", name |-> <<>>, status |-> "", created |-> 0, modified |-> 0,
     folder_relative_path |-> <<>>]

\* what an operation hands back: the disk it leaves, the uuids it drew, and its
\* Result (ret: a returned path or content, info: a ProjectInfo, list: a listing)
Res(ok, err, f, used, ret, info, list) ==
    [ok |-> ok, err |-> err, fs |-> f, used |-> used, ret |-> ret, info |-> info,
     list |-> list]

Fail(err, f, used) == Res(FALSE, err, f, used, <<>>, NoInfo, {})

\* homebase_vault_root()? then ensure_vault_structure(&vault_root)?, the opening
\* of every operation that bootstraps; e is the bootstrapper's outcome
Bootstrapped(f, now, n, Then(_)) ==
    Bind(ensure_vault_structure(f, homebase_vault_root, now, n), LAMBDA e :
        IF ~e.ok THEN Fail(e.err, e.fs, e.used) ELSE Then(e))

(***************************************************************************)
(* Public operations.  Each takes the disk f, the time now and the number  *)
(* n of uuids drawn so far, and returns a Res.                             *)
(***************************************************************************)
InAllowedSubtreeLoose(target_dir_str) ==
    \/ StartsWith(target_dir_str, S(<<NOTES, INBOX>>))
    \/ StartsWith(target_dir_str, S(<<NOTES, FOLDERS>>))
    \/ StartsWith(target_dir_str, S(<<NOTES, PROJECTS>>))

\* a move that accepts every target directory
InAllowedSubtreeAny(target_dir_str) == TRUE

InAllowedSubtreeExact(target_dir_str) ==
    \/ StartsWith(target_dir_str, S(<<NOTES, INBOX, <<>>>>))
    \/ target_dir_str = S(<<NOTES, INBOX>>)
    \/ StartsWith(target_dir_str, S(<<NOTES, FOLDERS, <<>>>>))
    \/ target_dir_str = S(<<NOTES, FOLDERS>>)
    \/ StartsWith(target_dir_str, S(<<NOTES, PROJECTS, <<>>>>))
    \/ target_dir_str = S(<<NOTES, PROJECTS>>)

TargetError == "Target directory must be under notes/inbox, notes/folders, or notes/projects"

vault_init(f, now, n) ==
    Bootstrapped(f, now, n, LAMBDA e :
        Res(TRUE, "", e.fs, e.used, homebase_vault_root, NoInfo, {}))

NoteFiles(f, notes_root) ==
    {k \in Under(f, Walk(notes_root)) :
        f[k].kind = "file" /\ Extension(k[Len(k)]) = <<"md">>}

VaultNoteEntry(f, k) ==
    Bind(relative_from_vault_root(AbsStr(k)).rel, LAMBDA rel :
        [relative_path |-> rel, kind |-> kind_from_relative_path(rel),
         mtime_ms |-> f[k].mtime])

\* a listing that never filters
ListedAlways(include_archived, rel) == TRUE

\* if !include_archived && rel.starts_with("notes/archive/") { continue; }
Listed(include_archived, rel) ==
    include_archived \/ ~StartsWith(rel, S(<<NOTES, ARCHIVE, <<>>>>))

\* entries.sort_by(|a, b| b.mtime_ms.cmp(&a.mtime_ms)): the entries in an order
\* of descending mtime (entries of equal mtime in the order the walk gave them)
SortedByMtimeDesc(entries) ==
    CHOOSE s \in [1..Cardinality(entries) -> entries] :
        /\ {s[i] : i \in DOMAIN s} = entries
        /\ \A i, j \in DOMAIN s : i < j => s[i].mtime_ms >= s[j].mtime_ms

\* list: the entries returned; ret: the Vec returned, in its order
vault_list_notes(f, now, n, include_archived) ==
    Bootstrapped(f, now, n, LAMBDA e :
    Bind({entry \in {VaultNoteEntry(e.fs, k) :
                       k \in NoteFiles(e.fs, PathJoin(homebase_vault_root, NOTES))} :
             Listed(include_archived, entry.relative_path)}, LAMBDA entries :
        Res(TRUE, "", e.fs, e.used, SortedByMtimeDesc(entries), NoInfo, entries)))

\* ret: the note's content
vault_read_note(f, now, n, relative_path) ==
    Bind(resolve_vault_path(relative_path), LAMBDA full :
        IF ~full.ok THEN Fail(full.err, f, 0) ELSE
    Bind(read_to_string(f, full.full), LAMBDA r :
        IF ~r.ok THEN Fail("Failed to read", f, 0)
        ELSE Res(TRUE, "", f, 0, <<r.data.text>>, NoInfo, {})))

vault_write_note(f, now, n, relative_path, contents) ==
    Bind(resolve_vault_path(relative_path), LAMBDA full :
        IF ~full.ok THEN Fail(full.err, f, 0) ELSE
    Bind(write_atomic(f, full.full, contents, n + 1, now), LAMBDA w :
        IF ~w.ok THEN Fail(w.err, w.fs, 1)
        ELSE Res(TRUE, "", w.fs, 1, <<>>, NoInfo, {})))

\* id.chars().filter(|c| *c != '-').take(8)
IdChars(id) == Take(SeqFilter(id, {id[i] : i \in 1..Len(id)} \ {DASH}), 8)

\* the slug part of an imported note's file name
NoteSlug(title_hint) == IF title_hint.some THEN slugify(title_hint.v) ELSE <<"note">>

vault_create_note_from_markdown(f, now, n, arg_id, arg_target_dir, arg_title_hint, contents) ==
    Bootstrapped(f, now, n, LAMBDA e :
    Bind(Trim(arg_id), LAMBDA id :
        IF id = <<>> THEN Fail("id is required", e.fs, e.used) ELSE
    Bind(IF IdChars(id) = <<>> THEN 1 ELSE 0, LAMBDA drew :
    Bind(IF drew = 1 THEN <<UuidHex8[n + e.used + 1]>> ELSE IdChars(id), LAMBDA id_short :
    Bind(LocalDate \o <<DASH>> \o NoteSlug(arg_title_hint) \o <<DASH>> \o id_short \o MD,
         LAMBDA file_name :
    Bind(validate_relative_path(IF arg_target_dir.some THEN arg_target_dir.v
                                ELSE S(<<NOTES, INBOX>>)), LAMBDA target_dir_rel :
        IF ~target_dir_rel.ok THEN Fail(target_dir_rel.err, e.fs, e.used + drew) ELSE
    Bind(path_to_forward_slashes(target_dir_rel.rel), LAMBDA target_dir_str :
        IF ~InAllowedSubtreeLoose(target_dir_str)
        THEN Fail(TargetError, e.fs, e.used + drew) ELSE
    Bind(TrimEndMatches(target_dir_str, <<SLASH>>) \o <<SLASH>> \o file_name, LAMBDA rel_path :
    Bind(PathJoin(homebase_vault_root, rel_path), LAMBDA full_path :
        IF Exists(e.fs, full_path)
        THEN Fail("Note file already exists", e.fs, e.used + drew) ELSE
    Bind(write_atomic(e.fs, full_path, contents, n + e.used + drew + 1, now), LAMBDA w :
        IF ~w.ok THEN Fail(w.err, w.fs, e.used + drew + 1)
        ELSE Res(TRUE, "", w.fs, e.used + drew + 1, rel_path, NoInfo, {})))))))))))

\* the frontmatter block of a new note
Frontmatter(id, now_iso, user_placed) ==
    [NoData EXCEPT !.tag = "note", !.id = id, !.created = now_iso, !.modified = now_iso,
                   !.text = IF user_placed THEN "user_placed: true" ELSE "user_placed: false"]

\* a new note that is never marked as placed by the user
UserPlacedNever(rel_path) == FALSE

\* let user_placed = !rel_path.starts_with("notes/inbox/")
UserPlaced(rel_path) == ~StartsWith(rel_path, S(<<NOTES, INBOX, <<>>>>))

\* info.id: the id of the CreateNoteResult
vault_create_note(f, now, n, arg_target_dir) ==
    Bootstrapped(f, now, n, LAMBDA e :
    Bind(n + e.used + 1, LAMBDA id :
    Bind(LocalDate \o <<DASH, "untitled", DASH, UuidHex8[id]>> \o MD, LAMBDA file_name :
    Bind(validate_relative_path(IF arg_target_dir.some THEN arg_target_dir.v
                                ELSE S(<<NOTES, INBOX>>)), LAMBDA target_dir_rel :
        IF ~target_dir_rel.ok THEN Fail(target_dir_rel.err, e.fs, e.used + 1) ELSE
    Bind(path_to_forward_slashes(target_dir_rel.rel), LAMBDA target_dir_str :
        IF ~InAllowedSubtreeLoose(target_dir_str)
        THEN Fail(TargetError, e.fs, e.used + 1) ELSE
    Bind(TrimEndMatches(target_dir_str, <<SLASH>>) \o <<SLASH>> \o file_name, LAMBDA rel_path :
    Bind(UserPlaced(rel_path), LAMBDA user_placed :
    Bind(write_atomic(e.fs, PathJoin(homebase_vault_root, rel_path),
                      Frontmatter(UuidText[id], now, user_placed), id + 1, now), LAMBDA w :
        IF ~w.ok THEN Fail(w.err, w.fs, e.used + 2)
        ELSE Res(TRUE, "", w.fs, e.used + 2, rel_path,
                 [NoInfo EXCEPT !.id = UuidText[id]], {})))))))))

vault_create_note_in_inbox(f, now, n) == vault_create_note(f, now, n, None)

vault_archive_note(f, now, n, relative_path) ==
    Bootstrapped(f, now, n, LAMBDA e :
    Bind(validate_relative_path(relative_path), LAMBDA rel :
        IF ~rel.ok THEN Fail(rel.err, e.fs, e.used) ELSE
    Bind(PathJoin(homebase_vault_root, rel.rel), LAMBDA source :
        IF ~Exists(e.fs, source) THEN Fail("Note does not exist", e.fs, e.used) ELSE
    Bind(path_to_forward_slashes(rel.rel), LAMBDA rel_str :
        IF StartsWith(rel_str, S(<<NOTES, ARCHIVE, <<>>>>))
        THEN Res(TRUE, "", e.fs, e.used, rel_str, NoInfo, {})
        ELSE IF ~StartsWith(rel_str, S(<<NOTES, <<>>>>))
        THEN Fail("Can only archive notes under notes/", e.fs, e.used) ELSE
    Bind(TrimStartMatches(rel_str, S(<<NOTES, <<>>>>)), LAMBDA rel_under_notes :
    Bind(S(<<NOTES, ARCHIVE, <<>>>>) \o rel_under_notes, LAMBDA target_rel :
    Bind(PathJoin(homebase_vault_root, target_rel), LAMBDA target :
    Bind(create_dir_all(e.fs, AbsStr(ParentComps(Walk(target)))), LAMBDA d :
        IF ~d.ok THEN Fail("Failed to create", d.fs, e.used) ELSE
    Bind(rename(d.fs, source, target), LAMBDA r :
        IF ~r.ok THEN Fail("Failed to archive note", r.fs, e.used)
        ELSE Res(TRUE, "", r.fs, e.used, target_rel, NoInfo, {}))))))))))

vault_move_note(f, now, n, relative_path, target_dir) ==
    Bootstrapped(f, now, n, LAMBDA e :
    Bind(validate_relative_path(relative_path), LAMBDA rel :
        IF ~rel.ok THEN Fail(rel.err, e.fs, e.used) ELSE
    Bind(PathJoin(homebase_vault_root, rel.rel), LAMBDA src :
        IF ~Exists(e.fs, src) THEN Fail("Note does not exist", e.fs, e.used) ELSE
    Bind(validate_relative_path(target_dir), LAMBDA target_dir_rel :
        IF ~target_dir_rel.ok THEN Fail(target_dir_rel.err, e.fs, e.used) ELSE
    Bind(path_to_forward_slashes(target_dir_rel.rel), LAMBDA target_dir_str :
        IF ~InAllowedSubtreeExact(target_dir_str) THEN Fail(TargetError, e.fs, e.used)
        ELSE IF ~HasFileName(src) THEN Fail("Invalid source path", e.fs, e.used) ELSE
    Bind(PathJoin(homebase_vault_root, target_dir_rel.rel), LAMBDA dest_dir :
    Bind(create_dir_all(e.fs, dest_dir), LAMBDA d :
        IF ~d.ok THEN Fail("Failed to create", d.fs, e.used) ELSE
    Bind(PathJoin(dest_dir, FileName(src)), LAMBDA dest :
    Bind(rename(d.fs, src, dest), LAMBDA r :
        IF ~r.ok THEN Fail("Failed to move note", r.fs, e.used) ELSE
    Bind(relative_from_vault_root(dest), LAMBDA back :
        IF ~back.ok THEN Fail("Path is outside vault", r.fs, e.used)
        ELSE Res(TRUE, "", r.fs, e.used, back.rel, NoInfo, {})))))))))))

(***************************************************************************)
(* Folder Lifecycle Manager                                                *)
(***************************************************************************)
\* the listing as the set of its entries (the trailing sort orders them by path)
vault_list_folders(f, now, n) ==
    Bootstrapped(f, now, n, LAMBDA e :
    Bind(Walk(PathJoin(homebase_vault_root, S(<<NOTES, FOLDERS>>))), LAMBDA root :
        Res(TRUE, "", e.fs, e.used, <<>>, NoInfo,
            {relative_from_vault_root(AbsStr(k)).rel :
                k \in {q \in Under(e.fs, root) : q # root /\ e.fs[q].kind = "dir"}})))

FolderPrefixError == "Folder path must start with notes/folders/"

vault_create_folder(f, now, n, relative_path) ==
    Bootstrapped(f, now, n, LAMBDA e :
    Bind(validate_relative_path(relative_path), LAMBDA rel :
        IF ~rel.ok THEN Fail(rel.err, e.fs, e.used)
        ELSE IF ~StartsWith(path_to_forward_slashes(rel.rel), S(<<NOTES, FOLDERS, <<>>>>))
        THEN Fail(FolderPrefixError, e.fs, e.used) ELSE
    Bind(create_dir_all(e.fs, PathJoin(homebase_vault_root, rel.rel)), LAMBDA d :
        IF ~d.ok THEN Fail("Failed to create folder", d.fs, e.used)
        ELSE Res(TRUE, "", d.fs, e.used, <<>>, NoInfo, {}))))

Contains(s, chars) == \E i \in 1..Len(s) : s[i] \in chars

vault_rename_folder(f, now, n, from_relative_path, to_name) ==
    Bootstrapped(f, now, n, LAMBDA e :
    Bind(validate_relative_path(from_relative_path), LAMBDA from_rel :
        IF ~from_rel.ok THEN Fail(from_rel.err, e.fs, e.used)
        ELSE IF ~StartsWith(path_to_forward_slashes(from_rel.rel), S(<<NOTES, FOLDERS, <<>>>>))
        THEN Fail(FolderPrefixError, e.fs, e.used)
        ELSE IF Trim(to_name) = <<>> THEN Fail("New name cannot be empty", e.fs, e.used)
        ELSE IF Contains(to_name, {SLASH, BSLASH})
        THEN Fail("New name must not contain path separators", e.fs, e.used)
        ELSE IF Trim(to_name) = CurDir \/ Trim(to_name) = ParentDir
        THEN Fail("Invalid folder name", e.fs, e.used) ELSE
    Bind(PathJoin(homebase_vault_root, from_rel.rel), LAMBDA from_full :
        IF Walk(from_full) = <<>> THEN Fail("Invalid folder path", e.fs, e.used) ELSE
    Bind(PathJoin(AbsStr(ParentComps(Walk(from_full))), to_name), LAMBDA to_full :
    Bind(rename(e.fs, from_full, to_full), LAMBDA r :
        IF ~r.ok THEN Fail("Failed to rename folder", r.fs, e.used) ELSE
    Bind(relative_from_vault_root(to_full), LAMBDA back :
        IF ~back.ok THEN Fail("Path is outside vault", r.fs, e.used)
        ELSE Res(TRUE, "", r.fs, e.used, back.rel, NoInfo, {})))))))

\* WalkDir::new(full).min_depth(1).into_iter().next().is_some(): an entry below
\* full, or the error WalkDir yields first when full cannot be read at all
WalkYieldsSomething(f, full) ==
    \/ Walk(full) \notin DOMAIN f
    \/ f[Walk(full)].kind = "file" /\ MustBeDir(full)
    \/ Children(f, Walk(full)) # {}

vault_delete_folder(f, now, n, relative_path) ==
    Bootstrapped(f, now, n, LAMBDA e :
    Bind(validate_relative_path(relative_path), LAMBDA rel :
        IF ~rel.ok THEN Fail(rel.err, e.fs, e.used)
        ELSE IF ~StartsWith(path_to_forward_slashes(rel.rel), S(<<NOTES, FOLDERS, <<>>>>))
        THEN Fail(FolderPrefixError, e.fs, e.used) ELSE
    Bind(PathJoin(homebase_vault_root, rel.rel), LAMBDA full :
        IF WalkYieldsSomething(e.fs, full) THEN Fail("Folder is not empty", e.fs, e.used) ELSE
    Bind(remove_dir(e.fs, full), LAMBDA r :
        IF ~r.ok THEN Fail("Failed to delete folder", r.fs, e.used)
        ELSE Res(TRUE, "", r.fs, e.used, <<>>, NoInfo, {})))))

(***************************************************************************)
(* Project Lifecycle Manager                                               *)
(***************************************************************************)
\* serde_json::to_string_pretty(&ProjectMeta)
MetaJson(meta) ==
    [NoData EXCEPT !.tag = "meta", !.id = meta.id, !.name = meta.name,
                   !.status = meta.status, !.created = meta.created,
                   !.modified = meta.modified]

\* serde_json::from_str::<ProjectMeta>: only a document with the five fields parses
ParsesAsMeta(data) == data.tag = "meta"

MetaOf(data) ==
    [id |-> data.id, name |-> data.name, status |-> data.status,
     created |-> data.created, modified |-> data.modified]

SIDECAR == <<DOT, "project", DOT, "json">>

read_project_meta(f, path) ==
    Bind(read_to_string(f, path), LAMBDA raw :
        IF ~raw.ok THEN [ok |-> FALSE, meta |-> MetaOf(NoData)]
        ELSE IF ~ParsesAsMeta(raw.data) THEN [ok |-> FALSE, meta |-> MetaOf(NoData)]
        ELSE [ok |-> TRUE, meta |-> MetaOf(raw.data)])

write_project_meta(f, path, meta, u, now) == write_atomic(f, path, MetaJson(meta), u, now)

\* out: the (folder path, meta) pairs, as a set (fs::read_dir gives no order)
list_projects_internal(f, vault_root) ==
    Bind(PathJoin(vault_root, S(<<NOTES, PROJECTS>>)), LAMBDA projects_root :
        IF ~IsDir(f, projects_root) THEN [ok |-> FALSE, out |-> {}] ELSE
    Bind({k \in Children(f, Walk(projects_root)) :
            f[k].kind = "dir" /\ Exists(f, PathJoin(AbsStr(k), SIDECAR))}, LAMBDA candidates :
    Bind({[path |-> AbsStr(k), read |-> read_project_meta(f, PathJoin(AbsStr(k), SIDECAR))] :
            k \in candidates}, LAMBDA entries :
        IF \E en \in entries : ~en.read.ok THEN [ok |-> FALSE, out |-> {}]
        ELSE [ok |-> TRUE,
              out |-> {[path |-> en.path, meta |-> en.read.meta] : en \in entries}])))

ProjectInfo(meta, folder_relative_path) ==
    [id |-> meta.id, name |-> meta.name, status |-> meta.status, created |-> meta.created,
     modified |-> meta.modified, folder_relative_path |-> folder_relative_path]

\* the listing as the set of its entries (the trailing sort orders them by name)
vault_list_projects(f, now, n) ==
    Bootstrapped(f, now, n, LAMBDA e :
    Bind(list_projects_internal(e.fs, homebase_vault_root), LAMBDA l :
        IF ~l.ok THEN Fail("Failed to read projects", e.fs, e.used)
        ELSE Res(TRUE, "", e.fs, e.used, <<>>, NoInfo,
                 {ProjectInfo(pm.meta, relative_from_vault_root(pm.path).rel) : pm \in l.out})))

\* a new project's directory name without the collision test
CreateFolderNameNoSuffix(f, projects_root, base_slug, short) == base_slug

\* the directory of a new project: the slug, or the slug with a suffix when taken
CreateFolderName(f, projects_root, base_slug, short) ==
    IF Exists(f, PathJoin(projects_root, base_slug))
    THEN base_slug \o <<DASH>> \o short
    ELSE base_slug

vault_create_project(f, now, n, name) ==
    Bootstrapped(f, now, n, LAMBDA e :
    Bind(UuidText[n + e.used + 1], LAMBDA id :
    Bind(<<UuidHex6[n + e.used + 2]>>, LAMBDA short :
    Bind(PathJoin(homebase_vault_root, S(<<NOTES, PROJECTS>>)), LAMBDA projects_root :
    Bind(PathJoin(projects_root, CreateFolderName(e.fs, projects_root, slugify(name), short)),
         LAMBDA folder_path :
    Bind(create_dir_all(e.fs, folder_path), LAMBDA d :
        IF ~d.ok THEN Fail("Failed to create project", d.fs, e.used + 2) ELSE
    Bind([id |-> id, name |-> name, status |-> "active", created |-> now, modified |-> now],
         LAMBDA meta :
    Bind(write_project_meta(d.fs, PathJoin(folder_path, SIDECAR), meta, n + e.used + 3, now),
         LAMBDA w :
        IF ~w.ok THEN Fail(w.err, w.fs, e.used + 3) ELSE
    Bind(relative_from_vault_root(folder_path), LAMBDA back :
        IF ~back.ok THEN Fail("Path is outside vault", w.fs, e.used + 3)
        ELSE Res(TRUE, "", w.fs, e.used + 3, back.rel, ProjectInfo(meta, back.rel), {}))))))))))

\* whether the slug's directory is taken by something other than the project itself
Collides(f, projects_root, folder_path, desired) ==
    /\ Exists(f, PathJoin(projects_root, desired))
    /\ Walk(PathJoin(projects_root, desired)) # Walk(folder_path)

\* an update that takes the slug's directory whoever holds it
DesiredPathNoSuffix(f, projects_root, folder_path, desired, short) ==
    PathJoin(projects_root, desired)

\* the directory an updated project should live in
DesiredPath(f, projects_root, folder_path, desired, short) ==
    IF Collides(f, projects_root, folder_path, desired)
    THEN PathJoin(projects_root, desired \o <<DASH>> \o short)
    ELSE PathJoin(projects_root, desired)

\* an update that takes the rename branch whether or not a name was given
RenameAlways(arg_name) == TRUE

\* if args.name.is_some(): the branch that may rename the directory
RenameWanted(arg_name) == arg_name.some

\* an update that restamps the record
UpdatedMetaRestamped(meta, arg_name, arg_status, now) ==
    [meta EXCEPT !.name = IF arg_name.some THEN arg_name.v ELSE @,
                 !.status = IF arg_status.some THEN arg_status.v ELSE @,
                 !.created = now,
                 !.modified = now]

\* the record the update writes back
UpdatedMeta(meta, arg_name, arg_status, now) ==
    [meta EXCEPT !.name = IF arg_name.some THEN arg_name.v ELSE @,
                 !.status = IF arg_status.some THEN arg_status.v ELSE @,
                 !.modified = now]

vault_update_project(f, now, n, arg_id, arg_name, arg_status) ==
    Bootstrapped(f, now, n, LAMBDA e :
    Bind(list_projects_internal(e.fs, homebase_vault_root), LAMBDA projects :
        IF ~projects.ok THEN Fail("Failed to read projects", e.fs, e.used) ELSE
    Bind({pm \in projects.out : pm.meta.id = arg_id}, LAMBDA found :
        IF found = {} THEN Fail("Project not found", e.fs, e.used) ELSE
    Bind(CHOOSE pm \in found : TRUE, LAMBDA hit :
    Bind(UpdatedMeta(hit.meta, arg_name, arg_status, now), LAMBDA meta :
    Bind(PathJoin(homebase_vault_root, S(<<NOTES, PROJECTS>>)), LAMBDA projects_root :
    Bind(IF RenameWanted(arg_name)
            /\ Collides(e.fs, projects_root, hit.path, slugify(meta.name))
         THEN 1 ELSE 0, LAMBDA drew :
    Bind(IF RenameWanted(arg_name)
         THEN DesiredPath(e.fs, projects_root, hit.path, slugify(meta.name),
                          <<UuidHex6[n + e.used + 1]>>)
         ELSE hit.path, LAMBDA desired_path :
    Bind(IF Walk(desired_path) # Walk(hit.path)
         THEN rename(e.fs, hit.path, desired_path)
         ELSE [ok |-> TRUE, fs |-> e.fs], LAMBDA r :
        IF ~r.ok THEN Fail("Failed to rename project folder", r.fs, e.used + drew) ELSE
    Bind(IF Walk(desired_path) # Walk(hit.path) THEN desired_path ELSE hit.path,
         LAMBDA final_folder_path :
    Bind(write_project_meta(r.fs, PathJoin(final_folder_path, SIDECAR), meta,
                            n + e.used + drew + 1, now), LAMBDA w :
        IF ~w.ok THEN Fail(w.err, w.fs, e.used + drew + 1) ELSE
    Bind(relative_from_vault_root(final_folder_path), LAMBDA back :
        IF ~back.ok THEN Fail("Path is outside vault", w.fs, e.used + drew + 1)
        ELSE Res(TRUE, "", w.fs, e.used + drew + 1, back.rel,
                 ProjectInfo(meta, back.rel), {})))))))))))))

(***************************************************************************)
(* The calls: one action per public operation                              *)
(***************************************************************************)
\* the machine before the vault exists: "/" and the home directory
FreshDisk == (<<>> :> DirNode) @@ (Walk(HomeDir) :> DirNode)

NoOp ==
    [op |-> "none", args |-> <<>>, ok |-> FALSE, err |-> "", ret |-> <<>>, info |-> NoInfo,
     list |-> {}, pre |-> <<>>, now |-> 0]

\* bounds on the number of calls in a behaviour of Spec, SpecNotes, SpecProjects,
\* SpecFolders, SpecListing, SpecCreate, SpecMove
MaxOps == 2
MaxNoteOps == 3
MaxProjectOps == 4
MaxFolderOps == 3
MaxListOps == 3
MaxCreateOps == 2
MaxMoveOps == 3

\* a call draws at most four uuids
CanCall == clock < limit /\ UuidsLeft(uuids) >= 4

Now == clock + 1

\* the call op(args) with outcome res took place
Called(op, args, res) ==
    \E r \in {res} :
    /\ fs' = r.fs
    /\ clock' = clock + 1
    /\ uuids' = uuids + r.used
    /\ last' = [op |-> op, args |-> args, ok |-> r.ok, err |-> r.err, ret |-> r.ret,
                info |-> r.info, list |-> r.list, pre |-> fs, now |-> Now]
    /\ prev' = [last EXCEPT !.pre = <<>>]
    /\ UNCHANGED <<limit, inp, out, wpc, wcall, reads>>

Init_ ==
    /\ CanCall
    /\ Called("vault_init", <<>>, vault_init(fs, Now, uuids))

ListNotes ==
    /\ CanCall
    /\ \E include_archived \in BOOLEAN :
         Called("vault_list_notes", [include_archived |-> include_archived],
                vault_list_notes(fs, Now, uuids, include_archived))

ReadNote(paths) ==
    /\ CanCall
    /\ \E p \in paths :
         Called("vault_read_note", [relative_path |-> p], vault_read_note(fs, Now, uuids, p))

WriteNote(paths, texts) ==
    /\ CanCall
    /\ \E p \in paths, c \in texts :
         Called("vault_write_note", [relative_path |-> p, contents |-> Text(c)],
                vault_write_note(fs, Now, uuids, p, Text(c)))

CreateNoteFromMarkdown(ids, targets, hints, texts) ==
    /\ CanCall
    /\ \E i \in ids, t \in targets, h \in hints, c \in texts :
         Called("vault_create_note_from_markdown",
                [id |-> i, target_dir |-> t, title_hint |-> h, contents |-> Text(c)],
                vault_create_note_from_markdown(fs, Now, uuids, i, t, h, Text(c)))

CreateNote(targets) ==
    /\ CanCall
    /\ \E t \in targets :
         Called("vault_create_note", [target_dir |-> t], vault_create_note(fs, Now, uuids, t))

CreateNoteInInbox ==
    /\ CanCall
    /\ Called("vault_create_note_in_inbox", <<>>, vault_create_note_in_inbox(fs, Now, uuids))

ArchiveNote(paths) ==
    /\ CanCall
    /\ \E p \in paths :
         Called("vault_archive_note", [relative_path |-> p],
                vault_archive_note(fs, Now, uuids, p))

MoveNote(paths, targets) ==
    /\ CanCall
    /\ \E p \in paths, t \in targets :
         Called("vault_move_note", [relative_path |-> p, target_dir |-> t],
                vault_move_note(fs, Now, uuids, p, t))

ListFolders ==
    /\ CanCall
    /\ Called("vault_list_folders", <<>>, vault_list_folders(fs, Now, uuids))

CreateFolder(paths) ==
    /\ CanCall
    /\ \E p \in paths :
         Called("vault_create_folder", [relative_path |-> p],
                vault_create_folder(fs, Now, uuids, p))

RenameFolder(paths, names) ==
    /\ CanCall
    /\ \E p \in paths, t \in names :
         Called("vault_rename_folder", [from_relative_path |-> p, to_name |-> t],
                vault_rename_folder(fs, Now, uuids, p, t))

DeleteFolder(paths) ==
    /\ CanCall
    /\ \E p \in paths :
         Called("vault_delete_folder", [relative_path |-> p],
                vault_delete_folder(fs, Now, uuids, p))

ListProjects ==
    /\ CanCall
    /\ Called("vault_list_projects", <<>>, vault_list_projects(fs, Now, uuids))

CreateProject(names) ==
    /\ CanCall
    /\ \E name \in names :
         Called("vault_create_project", [name |-> name],
                vault_create_project(fs, Now, uuids, name))

\* ids the caller can know: the ids of the projects on the disk, and one that
\* names nothing
KnownIds ==
    {pm.meta.id : pm \in list_projects_internal(fs, homebase_vault_root).out}
        \cup {"no-such-id"}

UpdateProject(names, statuses) ==
    /\ CanCall
    /\ \E i \in KnownIds, name \in names, status \in statuses :
         Called("vault_update_project", [id |-> i, name |-> name, status |-> status],
                vault_update_project(fs, Now, uuids, i, name, status))

(***************************************************************************)
(* Spec: any public operation, from a machine where the vault does not     *)
(* exist yet                                                               *)
(***************************************************************************)
A_MD == <<"a", DOT, "md">>
NoteA == S(<<NOTES, INBOX, A_MD>>)
FolderF == S(<<NOTES, FOLDERS, <<"f">>>>)

AnyPaths == {NoteA, FolderF}
\* a write can also land on the settings file, or where a skeleton directory goes
WritePaths == AnyPaths \cup {SettingsRel, <<"assets">>}
AnyTexts == {"A"}
AnyNames == {<<"M">>}

\* the vault does not exist and nothing has been called
FreshMachine(calls) ==
    /\ fs = FreshDisk
    /\ clock = 0
    /\ uuids = 0
    /\ last = NoOp
    /\ prev = NoOp
    /\ limit = calls
    /\ inp = <<>> /\ out = [done |-> FALSE, ok |-> FALSE, err |-> "", full |-> <<>>]
    /\ wpc = "idle" /\ wcall = 0 /\ reads = {}

Init == FreshMachine(MaxOps)

Next ==
    \/ Init_
    \/ ListNotes
    \/ ReadNote(AnyPaths)
    \/ WriteNote(WritePaths, AnyTexts)
    \/ CreateNoteFromMarkdown({<<"7">>}, {None}, {None}, AnyTexts)
    \/ CreateNote({None, Some(FolderF)})
    \/ CreateNoteInInbox
    \/ ArchiveNote(AnyPaths)
    \/ MoveNote(AnyPaths, {FolderF})
    \/ ListFolders
    \/ CreateFolder(AnyPaths)
    \/ RenameFolder(AnyPaths, {<<"g">>})
    \/ DeleteFolder(AnyPaths)
    \/ ListProjects
    \/ CreateProject(AnyNames)
    \/ UpdateProject({None, Some(<<"p">>)}, {NoneToken, Some("done")})

Spec == Init /\ [][Next]_vars

(***************************************************************************)
(* SpecPath: resolve_vault_path applied to every short path string         *)
(***************************************************************************)
MaxPathLen == 4

PathAlphabet == {SLASH, DOT, "x"}

Pending == [done |-> FALSE, ok |-> FALSE, err |-> "", full |-> <<>>]

Resolve ==
    /\ ~out.done
    /\ out' = [done |-> TRUE] @@ resolve_vault_path(inp)
    /\ UNCHANGED <<fs, clock, uuids, last, prev, limit, inp, wpc, wcall, reads>>

NextPath == Resolve

\* the part of a behaviour's first state that a specification does not use
IdleDisk == fs = <<>> /\ clock = 0 /\ uuids = 0 /\ last = <<>> /\ prev = <<>> /\ limit = 0
IdlePath == inp = <<>> /\ out = Pending
IdleWriter == wpc = "idle" /\ wcall = 0 /\ reads = {}

InitPath ==
    /\ inp \in StringsUpTo(PathAlphabet, MaxPathLen)
    /\ out = Pending
    /\ IdleDisk
    /\ IdleWriter

SpecPath == InitPath /\ [][NextPath]_vars

HasDotDotPiece(p) ==
    \E i \in 1..Len(SplitSlash(p, <<>>)) : SplitSlash(p, <<>>)[i] = ParentDir

StrictDescendant(full) ==
    /\ IsPrefixSeq(RootComps, Walk(full))
    /\ Len(Walk(full)) > Len(RootComps)

\* C1: resolve_vault_path(p) fails if p is absolute or has a ".." component, and
\* for every other p it succeeds with a strict descendant of the vault root.
C1_ResolveStrictDescendant ==
    out.done =>
        IF IsAbsolute(inp) \/ HasDotDotPiece(inp)
        THEN ~out.ok
        ELSE out.ok /\ StrictDescendant(out.full)

(***************************************************************************)
(* Claims about the bootstrapper                                           *)
(***************************************************************************)
SettingsPath == PathJoin(homebase_vault_root, SettingsRel)

Skeleton(f) ==
    /\ \A i \in 1..Len(dirs_to_create) : IsDir(f, PathJoin(homebase_vault_root, dirs_to_create[i]))
    /\ IsFile(f, SettingsPath)

EnsuringOps ==
    {"vault_init", "vault_list_notes", "vault_create_note_from_markdown",
     "vault_create_note", "vault_create_note_in_inbox", "vault_archive_note",
     "vault_move_note", "vault_list_folders", "vault_create_folder",
     "vault_rename_folder", "vault_delete_folder", "vault_list_projects",
     "vault_create_project", "vault_update_project"}

\* C4: ensure_vault_structure is idempotent: from every disk the program can
\* reach, a second call leaves the tree exactly as the first call left it, and
\* no call changes a config/settings.json that already exists.
C4_EnsureIdempotent ==
    Bind(ensure_vault_structure(fs, homebase_vault_root, Now, uuids), LAMBDA first :
    Bind(ensure_vault_structure(first.fs, homebase_vault_root, Now + 1, uuids + first.used),
         LAMBDA second :
        /\ second.fs = first.fs
        /\ second.ok = first.ok
        /\ Exists(fs, SettingsPath) =>
              first.fs[Walk(SettingsPath)] = fs[Walk(SettingsPath)]))

\* two operations that both bootstrap ran one after the other; the second found
\* the skeleton and the settings file of the first and left the disk as it was
C4_Witness ==
    /\ prev.op \in EnsuringOps /\ prev.ok
    /\ last.op = "vault_init" /\ last.ok
    /\ Skeleton(last.pre)
    /\ fs = last.pre
    /\ fs[Walk(SettingsPath)].data.created = prev.now

\* C5: every public operation, run first on a machine where the vault does not
\* exist, leaves the seven fixed directories and config/settings.json behind.
C5_FirstCallBootstraps ==
    (clock = 1 /\ last.pre = FreshDisk) => Skeleton(fs)

(***************************************************************************)
(* SpecNotes: the note operations on a machine where the vault does not    *)
(* exist yet                                                               *)
(***************************************************************************)
NotesNotesA == S(<<NOTES, NOTES, A_MD>>)
ArchivedA == S(<<NOTES, ARCHIVE, INBOX, A_MD>>)
InboxX == S(<<NOTES, <<"inbox", "-x">>>>)

NotePaths == {NoteA, NotesNotesA, ArchivedA}
NoteTexts == {"A", "B"}
CreateTargets == {None, Some(FolderF), Some(InboxX), Some(S(<<NOTES, ARCHIVE>>))}
MoveTargets == {FolderF, InboxX, S(<<NOTES, INBOX, <<>>>>)}

InitNotes == FreshMachine(MaxNoteOps)

NextNotes ==
    \/ WriteNote(NotePaths, NoteTexts)
    \/ CreateNote(CreateTargets)
    \/ CreateNoteFromMarkdown({<<"7">>, <<DASH>>}, {None, Some(InboxX)},
                              {None, Some(<<"M", SPACE, "p">>)}, {"A"})
    \/ ArchiveNote(NotePaths)
    \/ MoveNote(NotePaths, MoveTargets)

SpecNotes == InitNotes /\ [][NextNotes]_vars

\* notes/inbox, notes/folders, notes/projects or a directory below one of them
AllowedDir(cs) ==
    /\ Len(cs) >= 2
    /\ cs[1] = NOTES
    /\ cs[2] \in {INBOX, FOLDERS, PROJECTS}

PlacingOps == {"vault_create_note", "vault_create_note_from_markdown", "vault_move_note"}

TargetOf(call) ==
    IF call.op = "vault_move_note" THEN call.args.target_dir
    ELSE IF call.args.target_dir.some THEN call.args.target_dir.v
    ELSE S(<<NOTES, INBOX>>)

\* C3: a successful vault_create_note, vault_create_note_from_markdown or
\* vault_move_note leaves its note file inside notes/inbox, notes/folders or
\* notes/projects (or below), and a target directory outside them is rejected.
C3_PlacementConfined ==
    last.op \in PlacingOps =>
        /\ last.ok => /\ IsFile(fs, PathJoin(homebase_vault_root, last.ret))
                      /\ AllowedDir(ParentComps(Walk(last.ret)))
        /\ ~AllowedDir(Walk(TargetOf(last))) => ~last.ok

\* the note at relative path p of disk f, a file
NoteAt(f, p) == IsFile(f, PathJoin(homebase_vault_root, p))
ContentAt(f, p) == f[Walk(PathJoin(homebase_vault_root, p))].data

UnderArchive(p) == StartsWith(p, S(<<NOTES, ARCHIVE, <<>>>>))

\* C6: archiving an existing note notes/X that is not under notes/archive/
\* succeeds, returns notes/archive/X, and moves the file with its content there.
C6_ArchiveMirrors ==
    LET p == last.args.relative_path
        x == Drop(p, Len(S(<<NOTES, <<>>>>)))
        mirrored == S(<<NOTES, ARCHIVE, <<>>>>) \o x
    IN  (/\ last.op = "vault_archive_note"
         /\ StartsWith(p, S(<<NOTES, <<>>>>))
         /\ ~UnderArchive(p)
         /\ NoteAt(last.pre, p))
        => /\ last.ok
           /\ last.ret = mirrored
           /\ NoteAt(fs, mirrored)
           /\ ContentAt(fs, mirrored) = ContentAt(last.pre, p)
           /\ ~NoteAt(fs, p)

\* C7: vault_archive_note on a note already under notes/archive/ returns the
\* path it was given and changes nothing in the vault.
C7_ArchiveIdempotent ==
    (/\ last.op = "vault_archive_note"
     /\ UnderArchive(last.args.relative_path)
     /\ NoteAt(last.pre, last.args.relative_path))
    => /\ last.ok
       /\ last.ret = last.args.relative_path
       /\ fs = last.pre

(***************************************************************************)
(* SpecProjects: creating, updating and listing projects on a machine      *)
(* where the vault does not exist yet                                      *)
(***************************************************************************)
ProjectNames == {<<"M">>, <<"p">>}

InitProjects == FreshMachine(MaxProjectOps)

NextProjects ==
    \/ CreateProject(ProjectNames)
    \/ UpdateProject({None, Some(<<"M">>)}, {NoneToken, Some("done")})
    \/ ListProjects

SpecProjects == InitProjects /\ [][NextProjects]_vars

\* the project directories of disk f with their sidecars' records
ProjectsOn(f) == list_projects_internal(f, homebase_vault_root).out

\* what vault_list_projects returns on disk f
Listing(f) == vault_list_projects(f, Now, uuids).list

IdsOf(listing) == {info.id : info \in listing}

\* a directory of disk f with everything below it
SubtreeOf(f, path) == Restrict(f, Under(f, Walk(path)))

InVault(relative_path) == PathJoin(homebase_vault_root, relative_path)

SameNameBefore == {pm \in ProjectsOn(last.pre) : pm.meta.name = last.args.name}

\* C8: creating a project whose name an existing project already has succeeds
\* with a directory and an id of its own; the existing project's directory and
\* sidecar stay as they were, and vault_list_projects returns both projects.
C8_SameNameProjectsDistinct ==
    (last.op = "vault_create_project" /\ SameNameBefore # {}) =>
        /\ last.ok
        /\ Bind(ProjectsOn(fs), LAMBDA after :
           Bind(Listing(fs), LAMBDA listing :
             /\ \A first \in SameNameBefore :
                  /\ last.info.id # first.meta.id
                  /\ Walk(InVault(last.ret)) # Walk(first.path)
                  /\ first \in after
                  /\ SubtreeOf(fs, first.path) = SubtreeOf(last.pre, first.path)
                  /\ first.meta.id \in IdsOf(listing)
             /\ \E second \in after :
                  /\ second.meta.id = last.info.id
                  /\ second.meta.name = last.args.name
                  /\ Walk(second.path) = Walk(InVault(last.ret))
             /\ last.info \in listing))

\* a second project of the same name was created, in a suffixed directory
C8_Witness ==
    /\ last.op = "vault_create_project" /\ last.ok
    /\ SameNameBefore # {}
    /\ FileName(last.ret) # slugify(last.args.name)
    /\ Cardinality(Listing(fs)) >= 2

\* the pairs (updated project, other project) where the other project's
\* directory has the name the update's new name slugifies to
CollidingBefore ==
    IF last.op = "vault_update_project" /\ last.args.name.some
    THEN {pair \in ProjectsOn(last.pre) \X ProjectsOn(last.pre) :
            /\ pair[1].meta.id = last.args.id
            /\ pair[2].path # pair[1].path
            /\ FileName(pair[2].path) = slugify(last.args.name.v)}
    ELSE {}

\* C9: an update whose new name slugifies to the directory name of another
\* project succeeds and moves the updated project to a directory that is
\* neither its old one nor the other project's; the other project's directory
\* and sidecar stay as they were and both projects are listed.
C9_UpdateCollisionDisambiguated ==
    \A pair \in CollidingBefore :
        /\ last.ok
        /\ Walk(InVault(last.ret)) \notin {Walk(pair[1].path), Walk(pair[2].path)}
        /\ ~Exists(fs, pair[1].path)
        /\ SubtreeOf(fs, pair[2].path) = SubtreeOf(last.pre, pair[2].path)
        /\ Bind(ProjectsOn(fs), LAMBDA after :
             /\ pair[2] \in after
             /\ \E mine \in after :
                  /\ mine.meta.id = last.args.id
                  /\ mine.meta.name = last.args.name.v
                  /\ Walk(mine.path) = Walk(InVault(last.ret)))
        /\ {pair[1].meta.id, pair[2].meta.id} \subseteq IdsOf(Listing(fs))

\* an update ran whose new name collided with another project's directory
C9_Witness ==
    /\ CollidingBefore # {}
    /\ last.ok
    /\ FileName(last.ret) # slugify(last.args.name.v)

\* C10: a successful update leaves the set of listed ids as it was; the updated
\* project keeps its id and its created timestamp, is listed at the directory
\* the update returned, and a further update by the same id finds it.
C10_IdentityById ==
    (last.op = "vault_update_project" /\ last.ok) =>
        Bind(Listing(last.pre), LAMBDA before :
        Bind(Listing(fs), LAMBDA after :
            /\ IdsOf(after) = IdsOf(before)
            /\ last.info.id = last.args.id
            /\ \E was \in before, is \in after :
                 /\ was.id = last.args.id
                 /\ is.id = last.args.id
                 /\ is.created = was.created
                 /\ is.folder_relative_path = last.ret
            /\ vault_update_project(fs, Now, uuids, last.args.id, None, NoneToken).ok))

\* an update renamed a project's directory
C10_Witness ==
    /\ last.op = "vault_update_project" /\ last.ok
    /\ \E was \in Listing(last.pre) :
         /\ was.id = last.args.id
         /\ was.folder_relative_path # last.ret
         /\ was.created < last.now

\* the listed project the last call's id names, on the disk before the call
UpdatedBefore ==
    IF last.op = "vault_update_project"
    THEN {info \in Listing(last.pre) : info.id = last.args.id}
    ELSE {}

\* C11: an update that gives only a status succeeds on an existing project and
\* leaves its directory, name, id and created timestamp as they were; the
\* status becomes the one given, modified the time of the call, and every
\* other project is listed as before.
C11_StatusOnlyKeepsDirectory ==
    (/\ UpdatedBefore # {}
     /\ ~last.args.name.some
     /\ last.args.status.some)
    => /\ last.ok
       /\ Bind(Listing(fs), LAMBDA after :
            \A was \in UpdatedBefore :
              /\ after \ {last.info} = Listing(last.pre) \ {was}
              /\ last.info \in after
              /\ last.info = [was EXCEPT !.status = last.args.status.v,
                                         !.modified = last.now]
              /\ last.ret = was.folder_relative_path
              /\ SubtreeOf(fs, InVault(last.ret)) # <<>>)

\* a status-only update ran on a project whose directory name is not the slug
\* of its name (a suffixed directory)
C11_Witness ==
    /\ UpdatedBefore # {}
    /\ ~last.args.name.some /\ last.args.status.some /\ last.ok
    /\ last.info.status # "active"
    /\ FileName(last.ret) # slugify(last.info.name)

(***************************************************************************)
(* SpecFolders: the folder operations, and a note written into a folder,   *)
(* on a machine where the vault does not exist yet                         *)
(***************************************************************************)
FolderFG == S(<<NOTES, FOLDERS, <<"f">>, <<"g">>>>)
FoldersSlash == S(<<NOTES, FOLDERS, <<>>>>)
NoteInF == S(<<NOTES, FOLDERS, <<"f">>, A_MD>>)

FolderPaths == {FolderF, FolderFG, FoldersSlash}
FolderNames == {<<"g">>, <<>>, <<SPACE>>, <<"g", SLASH, "h">>, <<BSLASH>>, CurDir, ParentDir}

InitFolders == FreshMachine(MaxFolderOps)

NextFolders ==
    \/ CreateFolder(FolderPaths)
    \/ RenameFolder(FolderPaths, FolderNames)
    \/ DeleteFolder(FolderPaths)
    \/ ListFolders
    \/ WriteNote({NoteInF}, {"A"})

SpecFolders == InitFolders /\ [][NextFolders]_vars

\* disk f once the skeleton has been ensured at time now
WithSkeleton(f, now) == ensure_vault_structure(f, homebase_vault_root, now, 0).fs

\* what vault_list_folders returns on disk f
FolderListing(f) == vault_list_folders(f, Now, uuids).list

NotEmptyError == "Folder is not empty"

\* C12: vault_delete_folder fails with the not-empty error exactly when the
\* folder holds at least one entry, and then changes nothing (the skeleton
\* apart); on an existing empty folder it succeeds, the directory is gone and
\* vault_list_folders no longer returns it.
C12_DeleteFolderOnlyWhenEmpty ==
    last.op = "vault_delete_folder" =>
        Bind(WithSkeleton(last.pre, last.now), LAMBDA before :
        Bind(InVault(last.args.relative_path), LAMBDA full :
            /\ (last.err = NotEmptyError)
                    <=> (IsDir(before, full) /\ Children(before, Walk(full)) # {})
            /\ (last.err = NotEmptyError) => fs = before
            /\ (IsDir(before, full) /\ Children(before, Walk(full)) = {})
                    => /\ last.ok
                       /\ ~Exists(fs, full)
                       /\ last.args.relative_path \notin FolderListing(fs)))

\* the names vault_rename_folder is to reject
BadFolderName(to_name) ==
    \/ Trim(to_name) = <<>>
    \/ Contains(to_name, {SLASH, BSLASH})
    \/ to_name = CurDir
    \/ to_name = ParentDir

FoldersRootComps == Walk(InVault(S(<<NOTES, FOLDERS>>)))

\* C20: a successful vault_rename_folder(from, to_name) returns the path
\* parent(from)/to_name, which lies strictly under notes/folders; the folder
\* and everything in it is there afterwards and, the name having changed, no
\* longer at from.  A to_name that is empty, holds a separator or is . or ..
\* is rejected and nothing is renamed.
C20_RenameFolderSameParent ==
    last.op = "vault_rename_folder" =>
        Bind(WithSkeleton(last.pre, last.now), LAMBDA before :
        Bind(Walk(InVault(last.args.from_relative_path)), LAMBDA s :
        Bind(Walk(InVault(last.ret)), LAMBDA d :
            /\ last.ok =>
                  /\ d = Append(ParentComps(s), last.args.to_name)
                  /\ IsPrefixSeq(FoldersRootComps, d) /\ d # FoldersRootComps
                  /\ \A c \in Under(before, s) :
                        /\ d \o Drop(c, Len(s)) \in DOMAIN fs
                        /\ fs[d \o Drop(c, Len(s))] = before[c]
                  /\ d # s => Under(fs, s) = {}
            /\ BadFolderName(last.args.to_name) => ~last.ok /\ fs = before)))

\* the same statement for the calls whose from names a folder below
\* notes/folders, not notes/folders itself
C20_BelowFoldersRoot ==
    (last.op = "vault_rename_folder"
        /\ Walk(InVault(last.args.from_relative_path)) # FoldersRootComps)
    => C20_RenameFolderSameParent

\* the four note directories of the skeleton
NoteSkeleton == {S(<<NOTES, d>>) : d \in {INBOX, ARCHIVE, FOLDERS, PROJECTS}}

DomainOps ==
    {"vault_archive_note", "vault_move_note", "vault_create_folder",
     "vault_rename_folder", "vault_delete_folder"}

\* C22: after a successful vault_archive_note, vault_move_note,
\* vault_create_folder, vault_rename_folder or vault_delete_folder the
\* directories notes/inbox, notes/archive, notes/folders and notes/projects
\* still exist at their fixed locations.
C22_SkeletonStays ==
    (last.op \in DomainOps /\ last.ok) =>
        \A d \in NoteSkeleton : IsDir(fs, InVault(d))

(***************************************************************************)
(* SpecListing: notes written, archived and listed on a machine where the  *)
(* vault does not exist yet                                                *)
(***************************************************************************)
\* a file under notes/ that is not a .md file, and a .md file outside notes/
NoteNoExt == S(<<NOTES, INBOX, <<"a">>>>)
ListingPaths == {NoteA, ArchivedA, NoteNoExt, A_MD}

InitListing == FreshMachine(MaxListOps)

NextListing ==
    \/ WriteNote(ListingPaths, {"A"})
    \/ ArchiveNote(ListingPaths)
    \/ ListNotes

SpecListing == InitListing /\ [][NextListing]_vars

\* the vault-relative paths of the files of disk f that lie under notes/ and
\* whose name ends in .md
MdFilesUnderNotes(f) ==
    {JoinSlash(Drop(k, Len(RootComps))) :
        k \in {q \in DOMAIN f :
                 /\ f[q].kind = "file"
                 /\ IsPrefixSeq(RootComps \o <<NOTES>>, q)
                 /\ Len(q[Len(q)]) > Len(MD)
                 /\ EndsWith(q[Len(q)], MD)}}

PathsOf(entries) == {entry.relative_path : entry \in entries}

\* C13: in every state vault_list_notes(false) returns exactly the .md files
\* under notes/ that are not under notes/archive/, and vault_list_notes(true)
\* returns exactly the .md files under notes/; a note just archived is in the
\* second listing at its new path and in neither at its old path.
C13_ArchiveFilter ==
    Bind(vault_list_notes(fs, Now, uuids, FALSE), LAMBDA shown :
    Bind(vault_list_notes(fs, Now, uuids, TRUE), LAMBDA all :
        /\ shown.ok /\ all.ok
        /\ \A entry \in shown.list : ~UnderArchive(entry.relative_path)
        /\ PathsOf(shown.list) = {p \in MdFilesUnderNotes(fs) : ~UnderArchive(p)}
        /\ PathsOf(all.list) = MdFilesUnderNotes(fs)
        /\ (last.op = "vault_list_notes" /\ last.ok) =>
              last.list = (IF last.args.include_archived THEN all.list ELSE shown.list)
        /\ (/\ last.op = "vault_archive_note" /\ last.ok
            /\ last.args.relative_path \in MdFilesUnderNotes(last.pre)
            /\ ~UnderArchive(last.args.relative_path))
           => /\ last.ret \in PathsOf(all.list)
              /\ last.ret \notin PathsOf(shown.list)
              /\ last.args.relative_path \notin PathsOf(all.list)))

\* a note was written, archived and then listed without the archive: the
\* listing came back without it although the vault holds it
C13_Witness ==
    /\ prev.op = "vault_archive_note" /\ prev.ok
    /\ prev.ret # prev.args.relative_path
    /\ last.op = "vault_list_notes" /\ last.ok /\ ~last.args.include_archived
    /\ prev.ret \in MdFilesUnderNotes(fs)
    /\ prev.ret \notin PathsOf(last.list)

(***************************************************************************)
(* SpecCreate: notes created, blank and from Markdown, on a machine where  *)
(* the vault does not exist yet                                            *)
(***************************************************************************)
InboxSub == S(<<NOTES, INBOX, <<"q">>>>)
InboxSlash == S(<<NOTES, INBOX, <<>>>>)

NewNoteTargets == {None, Some(FolderF), Some(InboxSub), Some(InboxSlash), Some(InboxX)}
TitleHints == {None, Some(<<>>), Some(<<SPACE>>), Some(<<DASH>>), Some(<<"M", SPACE, "p">>)}

InitCreate == FreshMachine(MaxCreateOps)

NextCreate ==
    \/ CreateNote(NewNoteTargets)
    \/ CreateNoteInInbox
    \/ CreateNoteFromMarkdown({<<"7">>}, {None, Some(FolderF)}, TitleHints, {"A"})

SpecCreate == InitCreate /\ [][NextCreate]_vars

\* the location is notes/inbox or below it
InsideInbox(cs) == Len(cs) >= 2 /\ cs[1] = NOTES /\ cs[2] = INBOX

NewNoteOps == {"vault_create_note", "vault_create_note_in_inbox"}

NoTarget(call) == call.op = "vault_create_note_in_inbox" \/ ~call.args.target_dir.some

\* C14: a note created by vault_create_note carries user_placed: true exactly
\* when its file is not inside notes/inbox, its created and modified
\* timestamps are equal, and without a target it lies directly in notes/inbox
\* with user_placed: false.
C14_UserPlacedIffOutsideInbox ==
    (last.op \in NewNoteOps /\ last.ok) =>
        /\ NoteAt(fs, last.ret)
        /\ Bind(ContentAt(fs, last.ret), LAMBDA note :
             /\ note.tag = "note"
             /\ note.id = last.info.id
             /\ note.created = note.modified
             /\ note.text \in {"user_placed: true", "user_placed: false"}
             /\ (note.text = "user_placed: true")
                    <=> ~InsideInbox(ParentComps(Walk(last.ret)))
             /\ NoTarget(last) =>
                    /\ ParentComps(Walk(last.ret)) = <<NOTES, INBOX>>
                    /\ note.text = "user_placed: false")

\* notes were created in a folder and in a directory below the inbox
C14_Witness ==
    /\ prev.op = "vault_create_note" /\ prev.ok
    /\ ~InsideInbox(ParentComps(Walk(prev.ret)))
    /\ last.op = "vault_create_note" /\ last.ok
    /\ ParentComps(Walk(last.ret)) = <<NOTES, INBOX, <<"q">>>>
    /\ ContentAt(fs, prev.ret).text = "user_placed: true"
    /\ ContentAt(fs, last.ret).text = "user_placed: false"

\* the hint has no character that survives slugify
SlugifiesToNothing(hint) ==
    \A i \in 1..Len(hint) : to_ascii_lowercase(hint[i]) \notin LowerAlnum

\* C15: a note imported without a title hint, or with a hint that slugifies to
\* nothing, gets the literal "note" as the slug part of its file name.
C15_EmptySlugIsNote ==
    (/\ last.op = "vault_create_note_from_markdown" /\ last.ok
     /\ (last.args.title_hint.some => SlugifiesToNothing(last.args.title_hint.v)))
    => FileName(last.ret) = LocalDate \o <<DASH, "note", DASH>> \o last.args.id \o MD

(***************************************************************************)
(* SpecMove: notes written and moved on a machine where the vault does not *)
(* exist yet                                                               *)
(***************************************************************************)
MovePaths == {NoteA, NoteInF}
MoveDirs ==
    {FolderF, S(<<NOTES, INBOX>>), InboxSlash, S(<<NOTES, PROJECTS, <<"p">>>>), InboxX,
     <<"assets">>}

InitMove == FreshMachine(MaxMoveOps)

NextMove ==
    \/ WriteNote(MovePaths, {"A", "B"})
    \/ MoveNote(MovePaths, MoveDirs)

SpecMove == InitMove /\ [][NextMove]_vars

NotFoundError == "Note does not exist"

\* the disk a vault_move_note call found, the skeleton ensured
MoveBefore == WithSkeleton(last.pre, last.now)

\* the source of the last vault_move_note call existed
MoveSourceExists == Exists(MoveBefore, InVault(last.args.relative_path))

\* the failures of vault_move_note: an absent source gives the not-found
\* error, an existing source with a target outside the three subtrees gives
\* the target error, and in both cases the disk stays as it was
MoveFailures ==
    /\ ~MoveSourceExists => last.err = NotFoundError /\ fs = MoveBefore
    /\ (MoveSourceExists /\ ~AllowedDir(Walk(last.args.target_dir)))
          => last.err = TargetError /\ fs = MoveBefore

\* C16 as stated: a move with an existing source and a valid target d
\* succeeds, returns exactly d + "/" + filename(p), the file with its content
\* is there and no longer at p; the failures are as in MoveFailures.
C16_MoveNote ==
    last.op = "vault_move_note" =>
        /\ MoveFailures
        /\ (MoveSourceExists /\ AllowedDir(Walk(last.args.target_dir)))
              => /\ last.ok
                 /\ last.ret = last.args.target_dir \o <<SLASH>>
                                    \o FileName(last.args.relative_path)
                 /\ NoteAt(fs, last.ret)
                 /\ ContentAt(fs, last.ret) = ContentAt(MoveBefore, last.args.relative_path)
                 /\ ~NoteAt(fs, last.args.relative_path)

\* C16 amended: the returned path is the target directory, without a trailing
\* separator, + "/" + filename(p), and the file is no longer at p unless that
\* is where it was moved to.
C16_MoveNoteNormalised ==
    last.op = "vault_move_note" =>
        /\ MoveFailures
        /\ (MoveSourceExists /\ AllowedDir(Walk(last.args.target_dir)))
              => /\ last.ok
                 /\ last.ret = TrimEndMatches(last.args.target_dir, <<SLASH>>) \o <<SLASH>>
                                    \o FileName(last.args.relative_path)
                 /\ NoteAt(fs, last.ret)
                 /\ ContentAt(fs, last.ret) = ContentAt(MoveBefore, last.args.relative_path)
                 /\ last.ret # last.args.relative_path
                        => ~NoteAt(fs, last.args.relative_path)

\* a note was moved into a directory that the move created
C16_Witness ==
    /\ last.op = "vault_move_note" /\ last.ok
    /\ ~IsDir(MoveBefore, InVault(last.args.target_dir))
    /\ NoteAt(fs, last.ret)
    /\ last.ret # last.args.relative_path
    /\ ContentAt(fs, last.ret).text = "B"

\* the notes of disk f with their contents
StoredNotes(f) ==
    {[relative_path |-> p, contents |-> f[Walk(InVault(p))].data] : p \in MdFilesUnderNotes(f)}

\* C21: after a successful vault_move_note or vault_archive_note every note
\* that existed before the call still exists with its content, at its old
\* path or at the path the call returned, and no note has been lost.
C21_RelocationKeepsNotes ==
    (last.op \in {"vault_move_note", "vault_archive_note"} /\ last.ok) =>
        Bind(StoredNotes(MoveBefore), LAMBDA before :
        Bind(StoredNotes(fs), LAMBDA after :
            /\ \A note \in before :
                  \E kept \in after :
                     /\ kept.contents = note.contents
                     /\ kept.relative_path \in {note.relative_path, last.ret}
            /\ Cardinality(after) = Cardinality(before)))

(***************************************************************************)
(* SpecAtomic: write_atomic(path, "A") then write_atomic(path, "B") taken   *)
(* one file-system call at a time, with a reader of path                   *)
(***************************************************************************)
AtomicPaths ==
    {InVault(NoteA), SettingsPath, InVault(A_MD), PathJoin(HomeDir, A_MD), <<SLASH>>}

\* the machine before the vault exists, and with the skeleton in place
AtomicDisks == {FreshDisk, ensure_vault_structure(FreshDisk, homebase_vault_root, 0, 0).fs}

\* the first call writes "A", the second "B"
ContentsOf(call) == Text(IF call = 1 THEN "A" ELSE "B")

NotFound == "NotFound"

InitAtomic ==
    /\ fs \in AtomicDisks
    /\ inp \in AtomicPaths
    /\ wpc = "start" /\ wcall = 1 /\ reads = {}
    /\ clock = 0 /\ uuids = 1
    /\ last = <<>> /\ prev = <<>> /\ limit = 0 /\ out = Pending

WriterStep(r, next) ==
    /\ fs' = r.fs
    /\ wpc' = IF r.ok THEN next ELSE "failed"

\* path.parent(), create_dir_all(parent), and the uuid of the temporary name
WStart ==
    /\ wpc = "start"
    /\ IF Walk(inp) = <<>>
       THEN wpc' = "failed" /\ UNCHANGED <<fs, uuids>>
       ELSE /\ \E r \in {CreateParent(fs, inp)} : WriterStep(r, "tmp")
            /\ uuids' = uuids + 1
    /\ UNCHANGED <<clock, last, prev, limit, inp, out, wcall, reads>>

\* fs::write(&tmp_path, contents), first half: the file is created empty
WTmpCreate ==
    /\ wpc = "tmp"
    /\ \E r \in {TruncateTmp(fs, inp, uuids, clock + 1)} : WriterStep(r, "fill")
    /\ UNCHANGED <<clock, uuids, last, prev, limit, inp, out, wcall, reads>>

\* fs::write(&tmp_path, contents), second half: the contents are written
WTmp ==
    /\ wpc = "fill"
    /\ \E r \in {WriteTmp(fs, inp, ContentsOf(wcall), uuids, clock + 1)} :
         WriterStep(r, "replace")
    /\ clock' = clock + 1
    /\ UNCHANGED <<uuids, last, prev, limit, inp, out, wcall, reads>>

\* if path.exists() { fs::remove_file(path) }
WReplace ==
    /\ wpc = "replace"
    /\ \E r \in {RemoveExisting(fs, inp)} : WriterStep(r, "rename")
    /\ UNCHANGED <<clock, uuids, last, prev, limit, inp, out, wcall, reads>>

\* fs::rename(&tmp_path, path)
WRename ==
    /\ wpc = "rename"
    /\ \E r \in {RenameTmp(fs, inp, uuids)} : WriterStep(r, "returned")
    /\ UNCHANGED <<clock, uuids, last, prev, limit, inp, out, wcall, reads>>

\* the first write has returned Ok; the second begins
WAgain ==
    /\ wpc = "returned" /\ wcall = 1
    /\ wcall' = 2 /\ wpc' = "start"
    /\ UNCHANGED <<fs, clock, uuids, last, prev, limit, inp, out, reads>>

\* a reader reads path while the second write is under way or has returned
Read ==
    /\ wcall = 2 /\ wpc # "failed"
    /\ \E r \in {read_to_string(fs, inp)} :
         reads' = reads \cup {IF r.ok THEN r.data.text ELSE NotFound}
    /\ UNCHANGED <<fs, clock, uuids, last, prev, limit, inp, out, wpc, wcall>>

NextAtomic == WStart \/ WTmpCreate \/ WTmp \/ WReplace \/ WRename \/ WAgain \/ Read

SpecAtomic == InitAtomic /\ [][NextAtomic]_vars

\* C2: every read of path made during or after the second write gives "A" or
\* "B", and once the second write has returned the file holds "B".
C2_ReaderSeesOldOrNew ==
    /\ reads \subseteq {"A", "B"}
    /\ (wcall = 2 /\ wpc = "returned") =>
          read_to_string(fs, inp) = [ok |-> TRUE, data |-> ContentsOf(2)]

\* what the target held when the call under way began
OldContents ==
    IF wcall = 1
    THEN {d[Walk(inp)].data : d \in {disk \in AtomicDisks : IsFile(disk, inp)}}
    ELSE {ContentsOf(1)}

\* C17: wherever write_atomic stops between two of its file-system calls, the
\* target is absent or holds the complete old or the complete new content.
C17_InterruptedTargetWhole ==
    IsFile(fs, inp) => fs[Walk(inp)].data \in OldContents \cup {ContentsOf(wcall)}

\* the second write stopped after removing the target and before the rename:
\* the target is absent and the complete new content waits in the temporary
\* file
C17_Witness ==
    /\ wcall = 2 /\ wpc = "rename"
    /\ ~Exists(fs, inp)
    /\ read_to_string(fs, TmpPath(inp, uuids)) = [ok |-> TRUE, data |-> ContentsOf(2)]

(***************************************************************************)
(* SpecWriters: two vault_write_note calls on one path, each taken one     *)
(* file-system call at a time                                              *)
(***************************************************************************)
Writers == {1, 2}

\* the note before the two calls: not there, or written earlier
WriterDisks ==
    {WithSkeleton(FreshDisk, 0),
     write_atomic(WithSkeleton(FreshDisk, 0), InVault(NoteA), Text("O"), 1, 0).fs}

\* wpc[w]: where writer w stands; wcall[w]: the uuid of its temporary file;
\* out: the writers whose rename succeeded, in the order of the renames
InitWriters ==
    /\ fs \in WriterDisks
    /\ inp = NoteA
    /\ wpc = [w \in Writers |-> "start"]
    /\ wcall = [w \in Writers |-> 0]
    /\ out = <<>>
    /\ clock = 0 /\ uuids = 1
    /\ reads = {} /\ last = <<>> /\ prev = <<>> /\ limit = 0

\* the path write_atomic is called with
WriterTarget == resolve_vault_path(inp).full

StepTo(w, r, next) ==
    /\ fs' = r.fs
    /\ wpc' = [wpc EXCEPT ![w] = IF r.ok THEN next ELSE "failed"]

\* resolve_vault_path, path.parent(), create_dir_all(parent), the uuid of the
\* temporary name
WrStart(w) ==
    /\ wpc[w] = "start"
    /\ resolve_vault_path(inp).ok
    /\ \E r \in {CreateParent(fs, WriterTarget)} : StepTo(w, r, "tmp")
    /\ uuids' = uuids + 1
    /\ wcall' = [wcall EXCEPT ![w] = uuids + 1]
    /\ UNCHANGED <<clock, last, prev, limit, inp, out, reads>>

\* fs::write(&tmp_path, contents), first half
WrTmpCreate(w) ==
    /\ wpc[w] = "tmp"
    /\ \E r \in {TruncateTmp(fs, WriterTarget, wcall[w], clock + 1)} : StepTo(w, r, "fill")
    /\ UNCHANGED <<clock, uuids, last, prev, limit, inp, out, wcall, reads>>

\* fs::write(&tmp_path, contents), second half
WrTmpFill(w) ==
    /\ wpc[w] = "fill"
    /\ \E r \in {WriteTmp(fs, WriterTarget, ContentsOf(w), wcall[w], clock + 1)} :
         StepTo(w, r, "exists")
    /\ clock' = clock + 1
    /\ UNCHANGED <<uuids, last, prev, limit, inp, out, wcall, reads>>

\* if path.exists()
WrExists(w) ==
    /\ wpc[w] = "exists"
    /\ wpc' = [wpc EXCEPT ![w] = IF Exists(fs, WriterTarget) THEN "remove" ELSE "rename"]
    /\ UNCHANGED <<fs, clock, uuids, last, prev, limit, inp, out, wcall, reads>>

\* fs::remove_file(path)
WrRemove(w) ==
    /\ wpc[w] = "remove"
    /\ \E r \in {remove_file(fs, WriterTarget)} : StepTo(w, r, "rename")
    /\ UNCHANGED <<clock, uuids, last, prev, limit, inp, out, wcall, reads>>

\* fs::rename(&tmp_path, path); Ok(())
WrRename(w) ==
    /\ wpc[w] = "rename"
    /\ \E r \in {RenameTmp(fs, WriterTarget, wcall[w])} :
         /\ StepTo(w, r, "returned")
         /\ out' = IF r.ok THEN Append(out, w) ELSE out
    /\ UNCHANGED <<clock, uuids, last, prev, limit, inp, wcall, reads>>

NextWriters ==
    \E w \in Writers :
        \/ WrStart(w)
        \/ WrTmpCreate(w)
        \/ WrTmpFill(w)
        \/ WrExists(w)
        \/ WrRemove(w)
        \/ WrRename(w)

SpecWriters == InitWriters /\ [][NextWriters]_vars

\* C18: once both calls are over, both have returned Ok and the note holds
\* the complete content of the writer whose rename came last.
C18_LastWriterWins ==
    (\A w \in Writers : wpc[w] \in {"returned", "failed"}) =>
        /\ \A w \in Writers : wpc[w] = "returned"
        /\ out # <<>>
        /\ read_to_string(fs, WriterTarget)
              = [ok |-> TRUE, data |-> ContentsOf(out[Len(out)])]

(***************************************************************************)
(* SpecFaults: one vault_update_project or vault_write_note call taken one *)
(* file-system call at a time, where any one of these calls may fail       *)
(***************************************************************************)
\* a vault with the projects "M" and "p" and the note notes/inbox/a.md
FaultProjectM == vault_create_project(WithSkeleton(FreshDisk, 0), 1, 1, <<"M">>)
FaultProjectP == vault_create_project(FaultProjectM.fs, 2, 1 + FaultProjectM.used, <<"p">>)
FaultUuids == 2 + FaultProjectM.used + FaultProjectP.used
FaultDisk == write_atomic(FaultProjectP.fs, InVault(NoteA), Text("A"), FaultUuids, 3).fs
NoCall ==
    [op |-> "none", id |-> "", name |-> None, status |-> NoneToken,
     relative_path |-> <<>>, contents |-> NoData]

FaultCalls ==
    {[NoCall EXCEPT !.op = "vault_update_project", !.id = i, !.name = name, !.status = s] :
        i \in {FaultProjectM.info.id, FaultProjectP.info.id},
        name \in {None, Some(<<"q">>), Some(<<"M">>)},
        s \in {NoneToken, Some("done")}}
    \cup
    {[NoCall EXCEPT !.op = "vault_write_note", !.relative_path = p, !.contents = Text("B")] :
        p \in {NoteA, NoteInF}}

\* the locals of the call under way: the project directory and where it is to
\* go, the file write_atomic is writing, its contents and its uuid
NoLocals == [from |-> <<>>, dir |-> <<>>, target |-> <<>>, contents |-> NoData, u |-> 0]

\* inp: the call; wpc: where it stands; wcall: its locals; last.pre: the disk
\* it found
InitFaults ==
    /\ fs = FaultDisk
    /\ inp \in FaultCalls
    /\ wpc = "begin"
    /\ wcall = NoLocals
    /\ last = [NoOp EXCEPT !.pre = FaultDisk]
    /\ clock = 3 /\ uuids = FaultUuids
    /\ out = <<>> /\ reads = {} /\ prev = <<>> /\ limit = 0

FaultStep(r, next) ==
    /\ fs' = r.fs
    /\ wpc' = IF r.ok THEN next ELSE "failed"

\* vault_update_project up to its first change of the disk: the skeleton is
\* ensured, the project found, the record updated, the directory chosen
FBeginUpdate ==
    /\ wpc = "begin" /\ inp.op = "vault_update_project"
    /\ \E e \in {ensure_vault_structure(fs, homebase_vault_root, Now, uuids)} :
       \E projects \in {list_projects_internal(e.fs, homebase_vault_root)} :
       \E found \in {{pm \in projects.out : pm.meta.id = inp.id}} :
         /\ fs' = e.fs
         /\ IF ~e.ok \/ ~projects.ok \/ found = {}
            THEN wpc' = "failed" /\ UNCHANGED <<wcall, uuids>>
            ELSE \E hit \in found :
                 \E meta \in {UpdatedMeta(hit.meta, inp.name, inp.status, Now)} :
                 \E projects_root \in {PathJoin(homebase_vault_root, S(<<NOTES, PROJECTS>>))} :
                 \E desired_path \in
                        {IF RenameWanted(inp.name)
                         THEN DesiredPath(e.fs, projects_root, hit.path, slugify(meta.name),
                                          <<UuidHex6[uuids + e.used + 1]>>)
                         ELSE hit.path} :
                   /\ wcall' = [NoLocals EXCEPT !.from = hit.path, !.dir = desired_path,
                                                !.target = PathJoin(desired_path, SIDECAR),
                                                !.contents = MetaJson(meta)]
                   /\ wpc' = IF Walk(desired_path) # Walk(hit.path)
                             THEN "rename_dir" ELSE "start"
                   /\ uuids' = uuids + e.used + 1
    /\ UNCHANGED <<clock, last, prev, limit, inp, out, reads>>

\* fs::rename(&folder_path, &desired_path)
FRenameDir ==
    /\ wpc = "rename_dir"
    /\ \E r \in {rename(fs, wcall.from, wcall.dir)} : FaultStep(r, "start")
    /\ UNCHANGED <<clock, uuids, last, prev, limit, inp, out, wcall, reads>>

\* vault_write_note up to write_atomic
FBeginWrite ==
    /\ wpc = "begin" /\ inp.op = "vault_write_note"
    /\ \E full \in {resolve_vault_path(inp.relative_path)} :
         /\ wpc' = IF full.ok THEN "start" ELSE "failed"
         /\ wcall' = [NoLocals EXCEPT !.target = full.full, !.contents = inp.contents]
    /\ UNCHANGED <<fs, clock, uuids, last, prev, limit, inp, out, reads>>

\* write_atomic: path.parent(), create_dir_all(parent), the temporary name
FWStart ==
    /\ wpc = "start"
    /\ IF Walk(wcall.target) = <<>>
       THEN wpc' = "failed" /\ UNCHANGED fs
       ELSE \E r \in {CreateParent(fs, wcall.target)} : FaultStep(r, "tmp")
    /\ uuids' = uuids + 1
    /\ wcall' = [wcall EXCEPT !.u = uuids + 1]
    /\ UNCHANGED <<clock, last, prev, limit, inp, out, reads>>

\* fs::write(&tmp_path, contents), first half
FWTmpCreate ==
    /\ wpc = "tmp"
    /\ \E r \in {TruncateTmp(fs, wcall.target, wcall.u, Now)} : FaultStep(r, "fill")
    /\ UNCHANGED <<clock, uuids, last, prev, limit, inp, out, wcall, reads>>

\* fs::write(&tmp_path, contents), second half
FWTmp ==
    /\ wpc = "fill"
    /\ \E r \in {WriteTmp(fs, wcall.target, wcall.contents, wcall.u, Now)} :
         FaultStep(r, "replace")
    /\ UNCHANGED <<clock, uuids, last, prev, limit, inp, out, wcall, reads>>

\* if path.exists() { fs::remove_file(path) }
FWReplace ==
    /\ wpc = "replace"
    /\ \E r \in {RemoveExisting(fs, wcall.target)} : FaultStep(r, "rename")
    /\ UNCHANGED <<clock, uuids, last, prev, limit, inp, out, wcall, reads>>

\* fs::rename(&tmp_path, path); the call returns Ok
FWRename ==
    /\ wpc = "rename"
    /\ \E r \in {RenameTmp(fs, wcall.target, wcall.u)} : FaultStep(r, "returned")
    /\ UNCHANGED <<clock, uuids, last, prev, limit, inp, out, wcall, reads>>

\* the file-system call the operation is about to make fails with an I/O
\* error; the ? operator returns the Err
Fault ==
    /\ wpc \in {"rename_dir", "start", "tmp", "fill", "replace", "rename"}
    /\ wpc' = "failed"
    /\ UNCHANGED <<fs, clock, uuids, last, prev, limit, inp, out, wcall, reads>>

NextFaults ==
    \/ FBeginUpdate
    \/ FRenameDir
    \/ FBeginWrite
    \/ FWStart
    \/ FWTmpCreate
    \/ FWTmp
    \/ FWReplace
    \/ FWRename
    \/ Fault

SpecFaults == InitFaults /\ [][NextFaults]_vars

\* the directories of disk f below notes/folders
FoldersOn(f) ==
    {k \in Under(f, Walk(InVault(S(<<NOTES, FOLDERS>>)))) : f[k].kind = "dir"}

\* C19: when the operation has returned a failure, the notes, the folders and
\* the project records are as the call found them.
C19_FailureChangesNothing ==
    wpc = "failed" =>
        /\ StoredNotes(fs) = StoredNotes(last.pre)
        /\ FoldersOn(fs) = FoldersOn(last.pre)
        /\ ProjectsOn(fs) = ProjectsOn(last.pre)

====
